---- MODULE Spec2Model ----
(***************************************************************************)
(* Model of src/megaavr/VarSpeedServo.cpp: the interrupt-driven pulse      *)
(* scheduler (ServoHandler), the servo registry with attach/detach and the *)
(* timer interrupt life cycle, and the write/read conversion layer.        *)
(*                                                                         *)
(* The megaavr port owns one hardware timer (_timer, served by one ISR     *)
(* that calls ServoHandler(0)), so the model has one timer: one            *)
(* currentServoIndex, one CCMP register, one INTCTRL enable bit.           *)
(***************************************************************************)
EXTENDS Integers, Sequences, FiniteSets, TLC

(***************************************************************************)
(* Program constants                                                       *)
(***************************************************************************)
MIN_PULSE_WIDTH == 544
MAX_PULSE_WIDTH == 2400
DEFAULT_PULSE_WIDTH == 1500
REFRESH_INTERVAL == 16000
TRIM_DURATION == 5
INVALID_SERVO == 255
CURRENT_SEQUENCE_STOP == 255
\* F_CPU / 1000000 of the Arduino core the file is built against (16 MHz)
clockCyclesPerMicrosecond == 16

(***************************************************************************)
(* Bounds of the model                                                     *)
(***************************************************************************)
\* channels per timer; the platform header has 12, the model is scaled down
SERVOS_PER_TIMER == 2
\* write-type calls in one run of the conversion-layer specification
MaxCalls == 1
\* microseconds below SERVO_MIN() and above SERVO_MAX() that are written
UsMargin == 6

\* one timer: _Nbr_16timers * SERVOS_PER_TIMER
MAX_SERVOS == SERVOS_PER_TIMER
\* the pins an attach may name
Pins == {1, 2}
\* objects constructed in one run: one more than the registry holds
MaxInstances == MAX_SERVOS + 1

(***************************************************************************)
(* C integer arithmetic                                                    *)
(***************************************************************************)
\* C's "/" on integers truncates toward zero
tdiv(a, b) ==
  LET q == (IF a < 0 THEN -a ELSE a) \div (IF b < 0 THEN -b ELSE b)
  IN  IF (a < 0) = (b < 0) THEN q ELSE -q

toU16(x) == x % 65536
toInt16(x) == LET m == x % 65536 IN IF m > 32767 THEN m - 65536 ELSE m
toU8(x) == x % 256
toInt8(x) == LET m == x % 256 IN IF m > 127 THEN m - 256 ELSE m

\* Arduino's map(): long arithmetic, truncating division
map(x, in_min, in_max, out_min, out_max) ==
  tdiv((x - in_min) * (out_max - out_min), in_max - in_min) + out_min

constrain(x, lo, hi) == IF x < lo THEN lo ELSE IF x > hi THEN hi ELSE x

usToTicks(us) == tdiv((clockCyclesPerMicrosecond \div 16) * us, 4)

ticksToUs(ticks) == toU16(ticks * 16) \div (clockCyclesPerMicrosecond \div 4)

(***************************************************************************)
(* State                                                                   *)
(***************************************************************************)
VARIABLES
  ServoCount,         \* uint8_t ServoCount
  servos,             \* static servo_t servos[MAX_SERVOS]
  currentServoIndex,  \* currentServoIndex[0]
  CCMP,               \* _timer->CCMP
  INTCTRL,            \* _timer->INTCTRL: 1 when the capture interrupt is enabled
  pinHigh,            \* level of each output pin
  inst,               \* the VarSpeedServo objects, in construction order
  oob,                \* an access to servos[] outside 0..MAX_SERVOS-1 happened
  cycleStarted,       \* the handler has found currentServoIndex = -1 at least once
  cycleClean,         \* no main-line call since the current cycle began
  pulse,              \* per channel, the edges driven in the current cycle
  armed,              \* per channel, the CCMP value armed with its leading edge
  cycleChan,          \* sum of the channel durations armed in the current cycle
  cycleTicks,         \* sum of every duration armed in the current cycle
  lastOp,             \* the last call of the conversion layer, and what it saw before
  calls,              \* write-type calls made (conversion-layer specification)
  main,               \* where the main line stands inside a call, and the global interrupt flag
  seqLog              \* what the last sequencePlay / sequenceStop call did

progVars == <<ServoCount, servos, currentServoIndex, CCMP, INTCTRL, pinHigh, inst, oob>>
vars == <<ServoCount, servos, currentServoIndex, CCMP, INTCTRL, pinHigh, inst, oob,
          cycleStarted, cycleClean, pulse, armed, cycleChan, cycleTicks,
          lastOp, calls, main, seqLog>>

Channels == 0..(MAX_SERVOS - 1)

\* a zero-initialised servo_t
ZeroServo == [nbr |-> 0, isActive |-> FALSE, ticks |-> 0, value |-> 0,
              target |-> 0, speed |-> 0]

NoOp == [op |-> "none", arg |-> 0, speed |-> 0, pre |-> ZeroServo, preRead |-> 0]

\* the main line between calls, interrupts enabled (SREG's I bit set)
Idle == [pc |-> "idle", iflag |-> TRUE, oldSREG |-> TRUE, obj |-> 0, old |-> 0,
         speed |-> 0, ticks |-> 0, idxAt |-> 0, value |-> 0]

NoSeq == [call |-> "none", seq |-> "none", count |-> 0, loop |-> FALSE, start |-> 0,
          fresh |-> FALSE, prev |-> 0, ret |-> 0, wrote |-> -1, indexed |-> {},
          advances |-> 0, preRead |-> 0, issued |-> -1]

Init ==
  /\ ServoCount = 0
  /\ servos = [c \in Channels |-> ZeroServo]
  /\ currentServoIndex = 0
  /\ CCMP = 0
  /\ INTCTRL = 0
  /\ pinHigh = [p \in Pins |-> FALSE]
  /\ inst = <<>>
  /\ oob = FALSE
  /\ cycleStarted = FALSE
  /\ cycleClean = FALSE
  /\ pulse = [c \in Channels |-> "none"]
  /\ armed = [c \in Channels |-> 0]
  /\ cycleChan = 0
  /\ cycleTicks = 0
  /\ lastOp = NoOp
  /\ calls = 0
  /\ main = Idle
  /\ seqLog = NoSeq

(***************************************************************************)
(* Conversion layer: the methods as functions of the registry (sv) and the *)
(* object they are called on (this)                                        *)
(***************************************************************************)
SERVO_MIN(this) == MIN_PULSE_WIDTH - this.min * 4
SERVO_MAX(this) == MAX_PULSE_WIDTH - this.max * 4

\* byte channel = this->servoIndex
channelOf(this) == toU8(this.servoIndex)

\* the trim compensation left out
writeMicroseconds_NoTrim(sv, this, value) ==
  LET channel == toU8(this.servoIndex)
      clamped == constrain(value, SERVO_MIN(this), SERVO_MAX(this))
  IN  IF channel \in Channels
      THEN [sv EXCEPT ![channel].value = toU16(value),
                      ![channel].ticks = toU16(usToTicks(clamped))]
      ELSE sv

\* the registry after writeMicroseconds(value); a store to servos[255] lands
\* outside the array and leaves the registry as it is
writeMicroseconds(sv, this, value) ==
  LET channel == channelOf(this)
      clamped == IF value < SERVO_MIN(this) THEN SERVO_MIN(this)
                 ELSE IF value > SERVO_MAX(this) THEN SERVO_MAX(this)
                 ELSE value
      ticks   == toInt16(usToTicks(clamped - TRIM_DURATION))
  IN  IF channel \in Channels
      THEN [sv EXCEPT ![channel].value = toU16(value),
                      ![channel].ticks = toU16(ticks)]
      ELSE sv

\* the microsecond value write(value) hands to writeMicroseconds
writeArg(this, value) ==
  IF value < MIN_PULSE_WIDTH
  THEN LET angle == IF value < 0 THEN 0 ELSE IF value > 180 THEN 180 ELSE value
       IN  toInt16(map(angle, 0, 180, SERVO_MIN(this), SERVO_MAX(this)))
  ELSE value

write(sv, this, value) == writeMicroseconds(sv, this, writeArg(this, value))

\* the converted value stored in ticks, as write(value) does, instead of target
writeSpeed_IntoTicks(sv, this, value, speed) ==
  IF speed # 0
  THEN [write(sv, this, value) EXCEPT ![channelOf(this)].value = toU16(value),
                                      ![channelOf(this)].speed = speed]
  ELSE write(sv, this, value)

\* write(value, speed)
writeSpeed(sv, this, value, speed) ==
  LET channel == channelOf(this)
      sv1     == IF channel \in Channels
                 THEN [sv EXCEPT ![channel].value = toU16(value)]
                 ELSE sv
      us      == IF value < MIN_PULSE_WIDTH
                 THEN toInt16(map(constrain(value, 0, 180), 0, 180,
                                  SERVO_MIN(this), SERVO_MAX(this)))
                 ELSE value
      ticks   == toInt16(usToTicks(constrain(us, SERVO_MIN(this), SERVO_MAX(this))
                                   - TRIM_DURATION))
  IN  IF speed # 0
      THEN IF channel \in Channels
           THEN [sv1 EXCEPT ![channel].target = toU16(ticks),
                            ![channel].speed = speed]
           ELSE sv1
      ELSE write(sv1, this, value)

readMicroseconds(sv, this) ==
  IF this.servoIndex # INVALID_SERVO
  THEN toInt16(toU16(ticksToUs(sv[this.servoIndex].ticks) + TRIM_DURATION))
  ELSE 0

read(sv, this) ==
  toInt16(map(readMicroseconds(sv, this) + 1, SERVO_MIN(this), SERVO_MAX(this), 0, 180))

\* stop(): write(read())
stop(sv, this) == write(sv, this, read(sv, this))

\* isMoving() on a registered servo
isMoving(sv, this) ==
  LET value == toInt16(sv[channelOf(this)].value)
  IN  IF value < MIN_PULSE_WIDTH
      THEN read(sv, this) # value
      ELSE readMicroseconds(sv, this) # value

(***************************************************************************)
(* Registry and timer life cycle                                           *)
(***************************************************************************)
\* isTimerActive(timer0): any channel of the timer active
isTimerActive(sv) == \E channel \in 0..(SERVOS_PER_TIMER - 1) : sv[channel].isActive

Valid(this) == this.servoIndex < MAX_SERVOS

\* the capacity test one short: the last slot of the registry is never issued
construct_OneShort ==
  /\ IF ServoCount < MAX_SERVOS - 1
     THEN /\ inst' = Append(inst, [servoIndex |-> ServoCount, min |-> 0, max |-> 0,
                                   bounded |-> FALSE, curSeqPosition |-> 0,
                                   curSequence |-> "initSeq"])
          /\ ServoCount' = ServoCount + 1
          /\ servos' = [servos EXCEPT ![ServoCount].ticks = usToTicks(DEFAULT_PULSE_WIDTH)]
     ELSE /\ inst' = Append(inst, [servoIndex |-> INVALID_SERVO, min |-> 0, max |-> 0,
                                   bounded |-> FALSE, curSeqPosition |-> 0,
                                   curSequence |-> "initSeq"])
          /\ UNCHANGED <<ServoCount, servos>>
  /\ UNCHANGED <<currentServoIndex, CCMP, INTCTRL, pinHigh, oob>>

\* VarSpeedServo::VarSpeedServo()
construct ==
  /\ IF ServoCount < MAX_SERVOS
     THEN /\ inst' = Append(inst, [servoIndex |-> ServoCount, min |-> 0, max |-> 0,
                                   bounded |-> FALSE, curSeqPosition |-> 0,
                                   curSequence |-> "initSeq"])
          /\ ServoCount' = ServoCount + 1
          /\ servos' = [servos EXCEPT ![ServoCount].ticks = usToTicks(DEFAULT_PULSE_WIDTH)]
     ELSE /\ inst' = Append(inst, [servoIndex |-> INVALID_SERVO, min |-> 0, max |-> 0,
                                   bounded |-> FALSE, curSeqPosition |-> 0,
                                   curSequence |-> "initSeq"])
          /\ UNCHANGED <<ServoCount, servos>>
  /\ UNCHANGED <<currentServoIndex, CCMP, INTCTRL, pinHigh, oob>>

\* attach(pin, min, max) on object i
attach(i, pin, min, max) ==
  LET this == inst[i] IN
  IF Valid(this)
  THEN /\ inst' = [inst EXCEPT ![i].min = toInt8(tdiv(MIN_PULSE_WIDTH - min, 4)),
                               ![i].max = toInt8(tdiv(MAX_PULSE_WIDTH - max, 4)),
                               ![i].bounded = TRUE]
       /\ servos' = [servos EXCEPT ![this.servoIndex].nbr = pin % 64,
                                   ![this.servoIndex].isActive = TRUE]
       /\ INTCTRL' = IF isTimerActive(servos) = FALSE THEN 1 ELSE INTCTRL
       /\ UNCHANGED <<ServoCount, currentServoIndex, CCMP, pinHigh, oob>>
  ELSE UNCHANGED progVars

\* detach() on object i.  On an object whose index is INVALID_SERVO the store
\* goes to servos[255] and isTimerActive(21) scans servos[252..263]: memory
\* outside the array, whose contents decide whether finISR runs.
detach(i) ==
  LET this == inst[i] IN
  IF Valid(this)
  THEN LET sv1 == [servos EXCEPT ![this.servoIndex].isActive = FALSE] IN
       /\ servos' = sv1
       /\ INTCTRL' = IF isTimerActive(sv1) = FALSE THEN 0 ELSE INTCTRL
       /\ UNCHANGED <<ServoCount, currentServoIndex, CCMP, pinHigh, inst, oob>>
  ELSE \E outside \in BOOLEAN :
       /\ oob' = TRUE
       /\ INTCTRL' = IF outside = FALSE THEN 0 ELSE INTCTRL
       /\ UNCHANGED <<ServoCount, servos, currentServoIndex, CCMP, pinHigh, inst>>

(***************************************************************************)
(* Pulse scheduler                                                         *)
(***************************************************************************)
\* the isActive test left out of the trailing edge
pulseLow_IgnoreActive(sv, count, index) == index >= 0 /\ index < count

\* the handler drives the current channel's pin low
pulseLow(sv, count, index) ==
  index >= 0 /\ index < count /\ sv[index].isActive = TRUE

\* off by one: the last registered channel is left out of the cycle
channelInCycle_SkipLast(count, index) == index + 1 < count /\ index < SERVOS_PER_TIMER

\* the advanced index names a channel of this cycle
channelInCycle(count, index) == index < count /\ index < SERVOS_PER_TIMER

\* the refresh wait left out: only the guard margin is armed
refreshCCMP_NoWait(counter) == toU16(counter + 4)

\* the period armed after the last channel; counter is the CCMP read back
refreshCCMP(counter) ==
  IF counter + 4 < usToTicks(REFRESH_INTERVAL)
  THEN toU16(usToTicks(REFRESH_INTERVAL))
  ELSE toU16(counter + 4)

\* the period armed for a channel
channelCCMP(sv, index) == toU16(0 + sv[index].ticks)

\* ServoHandler(0), run by the timer's capture interrupt
ServoHandler ==
  /\ INTCTRL = 1
  /\ main.iflag
  /\ LET index0  == currentServoIndex
         low     == pulseLow(servos, ServoCount, index0)
         ccmp0   == IF index0 < 0 THEN 0 ELSE CCMP
         pins1   == IF low THEN [pinHigh EXCEPT ![servos[index0].nbr] = FALSE]
                    ELSE pinHigh
         index1  == index0 + 1
         inCycle == channelInCycle(ServoCount, index1)
         high    == inCycle /\ servos[index1].isActive = TRUE
         pins2   == IF high THEN [pins1 EXCEPT ![servos[index1].nbr] = TRUE]
                    ELSE pins1
         ccmp1   == IF inCycle THEN channelCCMP(servos, index1) ELSE refreshCCMP(ccmp0)
         \* bookkeeping of the cycle that began when the handler found -1
         started == cycleStarted \/ index0 < 0
         pulse0  == IF index0 < 0 THEN [c \in Channels |-> "none"] ELSE pulse
         armed0  == IF index0 < 0 THEN [c \in Channels |-> 0] ELSE armed
         pulse1  == IF low
                    THEN [pulse0 EXCEPT ![index0] =
                            IF pulse0[index0] = "high" THEN "done" ELSE "bad"]
                    ELSE pulse0
         pulse2  == IF high
                    THEN [pulse1 EXCEPT ![index1] =
                            IF pulse1[index1] = "none" THEN "high" ELSE "bad"]
                    ELSE pulse1
         armed1  == IF high THEN [armed0 EXCEPT ![index1] = ccmp1] ELSE armed0
         chan0   == IF index0 < 0 THEN 0 ELSE cycleChan
         ticks0  == IF index0 < 0 THEN 0 ELSE cycleTicks
     IN  /\ pinHigh' = pins2
         /\ CCMP' = ccmp1
         /\ currentServoIndex' = IF inCycle THEN index1 ELSE -1
         /\ cycleStarted' = started
         /\ cycleClean' = IF index0 < 0 THEN TRUE ELSE cycleClean
         /\ IF started /\ (index0 < 0 \/ cycleClean)
            THEN pulse' = pulse2 /\ armed' = armed1
            ELSE UNCHANGED <<pulse, armed>>
         /\ IF started
            THEN /\ cycleChan' = IF inCycle THEN chan0 + ccmp1 ELSE chan0
                 /\ cycleTicks' = ticks0 + ccmp1
            ELSE UNCHANGED <<cycleChan, cycleTicks>>
  /\ UNCHANGED <<ServoCount, servos, INTCTRL, inst, oob, lastOp, calls, main, seqLog>>

(***************************************************************************)
(* Specification of the scheduler running against main-line calls          *)
(***************************************************************************)
\* the angle the main line writes while the scheduler runs
SchedValues == {180}

\* a main-line call ends the undisturbed part of the cycle: its edges are no
\* longer followed
MainLine == /\ cycleClean' = FALSE
            /\ pulse' = [c \in Channels |-> "none"]
            /\ armed' = [c \in Channels |-> 0]
            /\ UNCHANGED <<cycleStarted, cycleChan, cycleTicks, lastOp, calls, main, seqLog>>

Construct ==
  /\ Len(inst) < MaxInstances
  /\ construct
  /\ MainLine

Attach ==
  \E i \in 1..Len(inst), pin \in Pins :
    /\ attach(i, pin, MIN_PULSE_WIDTH, MAX_PULSE_WIDTH)
    /\ MainLine

Detach ==
  \E i \in 1..Len(inst) :
    /\ detach(i)
    /\ MainLine

Write ==
  \E i \in 1..Len(inst), value \in SchedValues :
    /\ inst[i].bounded \/ ~Valid(inst[i])
    /\ servos' = write(servos, inst[i], value)
    /\ oob' = (oob \/ channelOf(inst[i]) \notin Channels)
    /\ UNCHANGED <<ServoCount, currentServoIndex, CCMP, INTCTRL, pinHigh, inst>>
    /\ MainLine

Next == Construct \/ Attach \/ Detach \/ Write \/ ServoHandler

Spec == Init /\ [][Next]_vars

(***************************************************************************)
(* Properties of the scheduler (checked under Spec)                        *)
(***************************************************************************)
\* a cycle that began with the handler finding -1 has run to its end
CycleDone == cycleStarted /\ currentServoIndex = -1

\* C1: in a cycle no main-line call disturbed, every registered channel that
\* is active got exactly one leading edge followed by exactly one trailing
\* edge, and the period armed with the leading edge is its stored ticks.
C1_PulsePerCycle ==
  (CycleDone /\ cycleClean) =>
    \A c \in Channels :
      (c < ServoCount /\ servos[c].isActive) =>
        (pulse[c] = "done" /\ armed[c] = servos[c].ticks)

C1_Witness ==
  /\ CycleDone /\ cycleClean /\ ServoCount = MAX_SERVOS
  /\ \A c \in Channels : servos[c].isActive /\ pulse[c] = "done"
  /\ servos[0].ticks # servos[1].ticks

\* the pins the registered servos are attached to
ServoPins == {servos[c].nbr : c \in {d \in Channels : d < ServoCount}} \cap Pins

\* C2: at most one servo pin of the timer is high.
C2_AtMostOneHigh == Cardinality({p \in ServoPins : pinHigh[p]}) <= 1

\* C3: the periods armed from one cycle restart to the next add up to at
\* least the refresh interval in ticks.
C3_CycleAtLeastRefresh == CycleDone => cycleTicks >= usToTicks(REFRESH_INTERVAL)

C3_Witness == CycleDone /\ cycleChan > 0 /\ ~cycleClean

\* C4: when the channel periods add up to less than the refresh interval,
\* the whole cycle lasts exactly the refresh interval.
C4_CycleIsRefresh ==
  (CycleDone /\ cycleChan < usToTicks(REFRESH_INTERVAL)) =>
    cycleTicks = usToTicks(REFRESH_INTERVAL)

\* C5: the timer's interrupt is enabled exactly when a channel of the timer
\* is active.
C5_InterruptIffActive == (INTCTRL = 1) <=> isTimerActive(servos)

(***************************************************************************)
(* Specification of the conversion layer: one servo, constructed and       *)
(* attached, then written, read and stopped from the main line             *)
(***************************************************************************)
\* (min, max) an attach names: the defaults, and a pair whose trims do not
\* fit the int8_t fields
AttachBounds == {<<MIN_PULSE_WIDTH, MAX_PULSE_WIDTH>>, <<0, 3000>>}
\* arguments of write(value): every angle and its neighbours, some pulse widths
WriteValues == (-2..182) \cup {543, 544, 1500, 2400, 2500}
\* arguments of write(value, speed)
SpeedValues == {-1, 0, 1, 90, 180, 181, 543, 544, 1500, 2400, 2401}
Speeds == {0, 1, 255}

Api == UNCHANGED <<ServoCount, currentServoIndex, CCMP, INTCTRL, pinHigh, inst, oob,
                   cycleStarted, cycleClean, pulse, armed, cycleChan, cycleTicks,
                   main, seqLog>>

ApiConstruct ==
  /\ Len(inst) = 0
  /\ construct
  /\ UNCHANGED <<cycleStarted, cycleClean, pulse, armed, cycleChan, cycleTicks,
                 lastOp, calls, main, seqLog>>

ApiAttach ==
  /\ Len(inst) = 1
  /\ ~inst[1].bounded
  /\ \E b \in AttachBounds : attach(1, 1, b[1], b[2])
  /\ UNCHANGED <<cycleStarted, cycleClean, pulse, armed, cycleChan, cycleTicks,
                 lastOp, calls, main, seqLog>>

Ready == Len(inst) = 1 /\ inst[1].bounded

ApiWrite ==
  /\ Ready /\ calls < MaxCalls
  /\ \E value \in WriteValues :
       /\ servos' = write(servos, inst[1], value)
       /\ lastOp' = [op |-> "write", arg |-> value, speed |-> 0,
                     pre |-> ZeroServo, preRead |-> 0]
  /\ calls' = calls + 1
  /\ Api

ApiWriteMicroseconds ==
  /\ Ready /\ calls < MaxCalls
  /\ \E value \in (SERVO_MIN(inst[1]) - UsMargin)..(SERVO_MAX(inst[1]) + UsMargin) :
       /\ servos' = writeMicroseconds(servos, inst[1], value)
       /\ lastOp' = [op |-> "writeMicroseconds", arg |-> value, speed |-> 0,
                     pre |-> ZeroServo, preRead |-> 0]
  /\ calls' = calls + 1
  /\ Api

ApiWriteSpeed ==
  /\ Ready /\ calls < MaxCalls
  /\ \E value \in SpeedValues, speed \in Speeds :
       /\ servos' = writeSpeed(servos, inst[1], value, speed)
       /\ lastOp' = [op |-> "writeSpeed", arg |-> value, speed |-> speed,
                     pre |-> servos[0], preRead |-> 0]
  /\ calls' = calls + 1
  /\ Api

ApiStop ==
  /\ Ready
  /\ servos' = stop(servos, inst[1])
  /\ lastOp' = [op |-> "stop", arg |-> 0, speed |-> 0, pre |-> ZeroServo,
                preRead |-> read(servos, inst[1])]
  /\ UNCHANGED calls
  /\ Api

NextApi == ApiConstruct \/ ApiAttach \/ ApiWrite \/ ApiWriteMicroseconds
           \/ ApiWriteSpeed \/ ApiStop

SpecApi == Init /\ [][NextApi]_vars

(***************************************************************************)
(* Properties of the conversion layer (checked under SpecApi)              *)
(***************************************************************************)
DefaultBounds(this) == SERVO_MIN(this) = MIN_PULSE_WIDTH /\ SERVO_MAX(this) = MAX_PULSE_WIDTH

Abs(x) == IF x < 0 THEN -x ELSE x

\* C6: with the default bounds, read() after write(a) returns a, for every
\* angle a in 0..180.
C6_ReadAfterWrite ==
  (lastOp.op = "write" /\ lastOp.arg \in 0..180 /\ DefaultBounds(inst[1])) =>
    read(servos, inst[1]) = lastOp.arg

\* C7: readMicroseconds() after writeMicroseconds(u) is within one tick's
\* length of u clamped to SERVO_MIN()..SERVO_MAX().
C7_UsRoundTrip ==
  lastOp.op = "writeMicroseconds" =>
    Abs(readMicroseconds(servos, inst[1])
        - constrain(lastOp.arg, SERVO_MIN(inst[1]), SERVO_MAX(inst[1]))) <= ticksToUs(1)

C7_Witness ==
  /\ lastOp.op = "writeMicroseconds"
  /\ ~DefaultBounds(inst[1])
  /\ lastOp.arg > SERVO_MIN(inst[1]) /\ lastOp.arg < SERVO_MAX(inst[1])
  /\ readMicroseconds(servos, inst[1]) = lastOp.arg - 3

\* C8: write(value, speed) with speed > 0 stores in target the ticks that
\* write(value) would output, stores speed, and leaves ticks as it was; with
\* speed = 0 it leaves the record that write(value) leaves.
C8_SpeedWrite ==
  lastOp.op = "writeSpeed" =>
    LET before    == [servos EXCEPT ![0] = lastOp.pre]
        immediate == write(before, inst[1], lastOp.arg)[0]
    IN  IF lastOp.speed # 0
        THEN /\ servos[0].target = immediate.ticks
             /\ servos[0].speed = lastOp.speed
             /\ servos[0].ticks = lastOp.pre.ticks
        ELSE servos[0] = immediate

C8_Witness ==
  /\ lastOp.op = "writeSpeed" /\ lastOp.speed = 255 /\ lastOp.arg = 181
  /\ servos[0].target # servos[0].ticks
  /\ servos[0].target = usToTicks(SERVO_MAX(inst[1]) - TRIM_DURATION)

\* the position reported in the unit of the argument
Reported(arg) ==
  IF arg < MIN_PULSE_WIDTH THEN read(servos, inst[1]) ELSE readMicroseconds(servos, inst[1])

\* C9: after a write entry point the stored last value is the argument, and
\* isMoving() tells whether the argument differs from the reported position;
\* right after write(a) with a in 0..180 it is false.
C9_LastValueAndMoving ==
  lastOp.op \in {"write", "writeSpeed", "writeMicroseconds"} =>
    /\ toInt16(servos[0].value) = lastOp.arg
    /\ isMoving(servos, inst[1]) <=> (Reported(lastOp.arg) # lastOp.arg)
    /\ (lastOp.op = "write" /\ lastOp.arg \in 0..180) => ~isMoving(servos, inst[1])

\* C10: read() after stop() is read() before it.
C10_StopKeepsRead ==
  lastOp.op = "stop" => read(servos, inst[1]) = lastOp.preRead

(***************************************************************************)
(* Properties of the registry and of the handler's pin writes (Spec)       *)
(***************************************************************************)
\* C15: ServoCount never exceeds MAX_SERVOS; the objects get the indices
\* 0, 1, ... in construction order up to the capacity and INVALID_SERVO after
\* it, and an index once given stays (detach frees nothing).
C15_IndicesInOrder ==
  /\ ServoCount <= MAX_SERVOS
  /\ ServoCount = (IF Len(inst) < MAX_SERVOS THEN Len(inst) ELSE MAX_SERVOS)
  /\ \A i \in 1..Len(inst) :
       inst[i].servoIndex = (IF i <= MAX_SERVOS THEN i - 1 ELSE INVALID_SERVO)

C15_Witness ==
  /\ Len(inst) = MaxInstances
  /\ inst[MaxInstances].servoIndex = INVALID_SERVO
  /\ servos[0].nbr \in Pins /\ ~servos[0].isActive
  /\ servos[MAX_SERVOS - 1].isActive

\* C16: calls on an object whose index is INVALID_SERVO touch nothing outside
\* servos[0..MAX_SERVOS-1], and its readMicroseconds() and read() report 0.
C16_InvalidIsInert ==
  /\ ~oob
  /\ \A i \in 1..Len(inst) :
       ~Valid(inst[i]) =>
         (readMicroseconds(servos, inst[i]) = 0 /\ read(servos, inst[i]) = 0)

\* a step of the handler: nothing else changes currentServoIndex
HandlerStep == currentServoIndex' # currentServoIndex

\* C19: the handler changes a pin's level only for a registered channel that
\* is active: high for the channel it advances to, low for the one it leaves;
\* it arms an inactive channel's ticks all the same; and when it finds -1 it
\* drives no pin low.
C19_OnlyActivePinsDriven ==
  [][HandlerStep =>
       /\ \A p \in Pins :
            pinHigh'[p] # pinHigh[p] =>
              \E c \in Channels :
                /\ c < ServoCount /\ servos[c].isActive /\ servos[c].nbr = p
                /\ \/ pinHigh'[p] /\ c = currentServoIndex + 1
                   \/ ~pinHigh'[p] /\ c = currentServoIndex
       /\ currentServoIndex < 0 => \A p \in Pins : pinHigh[p] => pinHigh'[p]
       /\ currentServoIndex' >= 0 => CCMP' = servos[currentServoIndex'].ticks
    ]_vars

\* the handler has armed the period of a detached channel in an undisturbed cycle
C19_Witness ==
  /\ cycleStarted /\ cycleClean /\ currentServoIndex >= 0
  /\ ~servos[currentServoIndex].isActive
  /\ servos[currentServoIndex].nbr \in Pins
  /\ ~pinHigh[servos[currentServoIndex].nbr]
  /\ CCMP = servos[currentServoIndex].ticks

(***************************************************************************)
(* Specification of the scheduler with attach(pin, min, max) on any bounds *)
(***************************************************************************)
\* attach(pin, min, max), also on an object that is attached already
AttachBounded ==
  \E i \in 1..Len(inst), pin \in Pins, b \in AttachBounds :
    /\ attach(i, pin, b[1], b[2])
    /\ MainLine

NextArm == Construct \/ AttachBounded \/ Detach \/ Write \/ ServoHandler

SpecArm == Init /\ [][NextArm]_vars

\* the range of ticks the bounds of an object allow
ticksInBounds(this, ticks) ==
  /\ usToTicks(SERVO_MIN(this) - TRIM_DURATION) <= ticks
  /\ ticks <= usToTicks(SERVO_MAX(this) - TRIM_DURATION)

\* C17: the period the handler arms for a channel lies within the bounds of
\* the object that owns the channel, whatever attach, write and detach calls
\* came before (the state is the one the handler left: no call since).
C17_ArmedWithinBounds ==
  (cycleStarted /\ cycleClean /\ currentServoIndex >= 0) =>
    \A i \in 1..Len(inst) :
      (inst[i].servoIndex = currentServoIndex /\ inst[i].bounded) =>
        ticksInBounds(inst[i], CCMP)

(***************************************************************************)
(* Specification of the writes store by store against the interrupt        *)
(***************************************************************************)
\* a 16-bit field after one of the two byte stores of an assignment
tornStore(old, new, lowFirst) ==
  IF lowFirst THEN (old \div 256) * 256 + (new % 256)
  ELSE (new \div 256) * 256 + (old % 256)

\* bookkeeping of a main-line step inside a call
MainStep == /\ cycleClean' = FALSE
            /\ pulse' = [c \in Channels |-> "none"]
            /\ armed' = [c \in Channels |-> 0]
            /\ UNCHANGED <<cycleStarted, cycleChan, cycleTicks, lastOp, calls, seqLog>>

AtomConstruct == main.pc = "idle" /\ Construct

AtomAttach == main.pc = "idle" /\ Attach

\* write(value): servos[channel].value and the first byte of servos[channel].ticks
\* are stored; the order of the two byte stores is the compiler's
writeTicksBegin ==
  \E i \in 1..Len(inst), value \in SchedValues, lowFirst \in BOOLEAN :
    LET channel == channelOf(inst[i])
        done    == write(servos, inst[i], value)
    IN  /\ main.pc = "idle"
        /\ Valid(inst[i]) /\ inst[i].bounded
        /\ servos' = [done EXCEPT ![channel].ticks =
                        tornStore(servos[channel].ticks, done[channel].ticks, lowFirst)]
        /\ main' = [main EXCEPT !.pc = "half", !.obj = i,
                                !.old = servos[channel].ticks,
                                !.ticks = done[channel].ticks,
                                !.idxAt = currentServoIndex]
        /\ UNCHANGED <<ServoCount, currentServoIndex, CCMP, INTCTRL, pinHigh, inst, oob>>
        /\ MainStep

\* the second byte of servos[channel].ticks is stored and the call returns
writeTicksEnd ==
  /\ main.pc = "half"
  /\ servos' = [servos EXCEPT ![channelOf(inst[main.obj])].ticks = main.ticks]
  /\ main' = Idle
  /\ UNCHANGED <<ServoCount, currentServoIndex, CCMP, INTCTRL, pinHigh, inst, oob>>
  /\ MainStep

\* write(value, speed), speed # 0, up to cli(): value stored, target computed,
\* SREG saved and the interrupt flag cleared
writeSpeedCli ==
  \E i \in 1..Len(inst), value \in SchedValues, speed \in {100} :
    LET channel == channelOf(inst[i])
        done    == writeSpeed(servos, inst[i], value, speed)
    IN  /\ main.pc = "idle"
        /\ Valid(inst[i]) /\ inst[i].bounded
        /\ servos' = [servos EXCEPT ![channel].value = done[channel].value]
        /\ main' = [main EXCEPT !.pc = "cli", !.obj = i, !.oldSREG = main.iflag,
                                !.iflag = FALSE, !.speed = speed,
                                !.old = servos[channel].target,
                                !.ticks = done[channel].target,
                                !.idxAt = currentServoIndex]
        /\ UNCHANGED <<ServoCount, currentServoIndex, CCMP, INTCTRL, pinHigh, inst, oob>>
        /\ MainStep

\* servos[channel].target = value
writeSpeedTarget ==
  /\ main.pc = "cli"
  /\ servos' = [servos EXCEPT ![channelOf(inst[main.obj])].target = main.ticks]
  /\ main' = [main EXCEPT !.pc = "targetStored"]
  /\ UNCHANGED <<ServoCount, currentServoIndex, CCMP, INTCTRL, pinHigh, inst, oob>>
  /\ MainStep

\* servos[channel].speed = speed
writeSpeedSpeed ==
  /\ main.pc = "targetStored"
  /\ servos' = [servos EXCEPT ![channelOf(inst[main.obj])].speed = main.speed]
  /\ main' = [main EXCEPT !.pc = "speedStored"]
  /\ UNCHANGED <<ServoCount, currentServoIndex, CCMP, INTCTRL, pinHigh, inst, oob>>
  /\ MainStep

\* SREG = oldSREG and the call returns
writeSpeedRestore ==
  /\ main.pc = "speedStored"
  /\ main' = [Idle EXCEPT !.iflag = main.oldSREG]
  /\ UNCHANGED progVars
  /\ MainStep

NextAtomic ==
  \/ AtomConstruct \/ AtomAttach \/ ServoHandler
  \/ writeTicksBegin \/ writeTicksEnd
  \/ writeSpeedCli \/ writeSpeedTarget \/ writeSpeedSpeed \/ writeSpeedRestore

SpecAtomic == Init /\ [][NextAtomic]_vars

\* C18: the handler does not run between cli() and the restore of SREG in
\* write(value, speed), so never between the target and the speed store; the
\* interrupt flag is back on when the call has returned; and the handler never
\* arms a channel with ticks of which write(value) has stored one byte only.
C18_MainLineAtomic ==
  /\ main.pc \in {"cli", "targetStored", "speedStored"} =>
       (~main.iflag /\ currentServoIndex = main.idxAt)
  /\ main.pc = "idle" => main.iflag
  /\ (/\ main.pc = "half"
      /\ currentServoIndex = channelOf(inst[main.obj])
      /\ main.idxAt # currentServoIndex) =>
       CCMP \in {main.old, main.ticks}

(***************************************************************************)
(* Specification of the blocking write: one servo, write(value, speed,     *)
(* true) polling the reported position while a ramp moves ticks            *)
(***************************************************************************)
WaitValues == {0, 1, 90, 179, 180}
WaitSpeeds == {0, 100}

\* the ramp the polling loops rely on: with a speed set, ticks moves towards
\* target by speed per refresh and stops on it
rampStep(sv, channel) ==
  LET s == sv[channel] IN
  IF s.speed # 0 /\ s.target > s.ticks
  THEN [sv EXCEPT ![channel].ticks = IF s.ticks + s.speed > s.target THEN s.target
                                     ELSE s.ticks + s.speed]
  ELSE IF s.speed # 0 /\ s.target < s.ticks
  THEN [sv EXCEPT ![channel].ticks = IF s.ticks - s.speed < s.target THEN s.target
                                     ELSE s.ticks - s.speed]
  ELSE sv

\* the condition that keeps write(value, speed, true) in its loop
waitPending(sv, this, value) ==
  IF value < MIN_PULSE_WIDTH THEN read(sv, this) # value
  ELSE readMicroseconds(sv, this) # value

WaitUnchanged == UNCHANGED <<ServoCount, currentServoIndex, CCMP, INTCTRL, pinHigh, inst, oob,
                             cycleStarted, cycleClean, pulse, armed, cycleChan, cycleTicks,
                             lastOp, calls, seqLog>>

\* write(value, speed, true) up to the polling loop
WaitWrite ==
  /\ Ready /\ main.pc = "idle"
  /\ \E value \in WaitValues, speed \in WaitSpeeds :
       /\ servos' = writeSpeed(servos, inst[1], value, speed)
       /\ main' = [main EXCEPT !.pc = "polling", !.obj = 1, !.value = value, !.speed = speed]
  /\ WaitUnchanged

\* one test of the loop condition: the call returns, or delay(5) and again
WaitPoll ==
  /\ main.pc = "polling"
  /\ main' = IF waitPending(servos, inst[main.obj], main.value) THEN main ELSE Idle
  /\ UNCHANGED servos
  /\ WaitUnchanged

\* the ramp moves the servo during delay(5)
WaitRamp ==
  /\ main.pc = "polling"
  /\ servos[channelOf(inst[main.obj])].speed # 0
  /\ servos[channelOf(inst[main.obj])].ticks # servos[channelOf(inst[main.obj])].target
  /\ servos' = rampStep(servos, channelOf(inst[main.obj]))
  /\ UNCHANGED main
  /\ WaitUnchanged

NextWait == ApiConstruct \/ ApiAttach \/ WaitWrite \/ WaitPoll \/ WaitRamp

SpecWait == Init /\ [][NextWait]_vars

\* the move a blocking write waits for is complete: an immediate write has
\* stored ticks, or the ramp has brought ticks to the target
MoveComplete ==
  \/ main.speed = 0
  \/ servos[channelOf(inst[main.obj])].ticks = servos[channelOf(inst[main.obj])].target

\* C11: with the default bounds and an angle in 0..180, a blocking write whose
\* move is complete leaves its polling loop: the reported position equals the
\* requested angle (nothing changes ticks any more, so a loop whose condition
\* still holds then never ends).
C11_BlockingWriteReturns ==
  (/\ main.pc = "polling"
   /\ DefaultBounds(inst[main.obj])
   /\ main.value \in 0..180
   /\ MoveComplete) =>
    ~waitPending(servos, inst[main.obj], main.value)

(***************************************************************************)
(* The sequence player                                                     *)
(***************************************************************************)
\* waypoint arrays of the sketch (position in degrees, speed); the object
\* starts on the library's own initSeq, which is none of them
Sequences ==
  [seqA |-> <<[position |-> 0, speed |-> 100], [position |-> 90, speed |-> 100],
              [position |-> 90, speed |-> 255]>>,
   seqB |-> <<[position |-> 180, speed |-> 1], [position |-> 45, speed |-> 100]>>]

SequenceRefs == {"seqA", "seqB"}

\* the calls sequencePlay(seq, count, loop, start) with start < count <= length
PlayCalls ==
  {c \in [seq : SequenceRefs, count : 1..3, loop : BOOLEAN, start : 0..2] :
     c.count <= Len(Sequences[c.seq]) /\ c.start < c.count}

\* the end of the list wraps to the first waypoint also when not looping
seqAdvance_NoStop(position, numPositions, loop) ==
  IF toU8(position + 1) >= numPositions THEN 0 ELSE toU8(position + 1)

\* the end of the list stops the playback also when looping
seqAdvance_NoWrap(position, numPositions, loop) ==
  IF toU8(position + 1) >= numPositions THEN CURRENT_SEQUENCE_STOP ELSE toU8(position + 1)

\* curSeqPosition++ and the end-of-list test
seqAdvance(position, numPositions, loop) ==
  IF toU8(position + 1) >= numPositions
  THEN IF loop THEN 0 ELSE CURRENT_SEQUENCE_STOP
  ELSE toU8(position + 1)

\* sequencePlay(sequenceIn, numPositions, loop, startPos): the new servos[],
\* the new curSeqPosition, and what the call did.  sequenceIn[curSeqPosition]
\* is read before curSeqPosition is compared with CURRENT_SEQUENCE_STOP; the
\* value read at 255 is arbitrary and the test fails whatever it is.
sequencePlay(sv, this, sequenceIn, numPositions, loop, startPos) ==
  LET new      == this.curSequence # sequenceIn
      old      == IF new THEN 255 ELSE this.curSeqPosition
      pos0     == IF new THEN startPos ELSE this.curSeqPosition
      points   == Sequences[sequenceIn]
      there    == /\ pos0 # CURRENT_SEQUENCE_STOP
                  /\ read(sv, this) = points[pos0 + 1].position
      pos1     == IF there THEN seqAdvance(pos0, numPositions, loop) ELSE pos0
      doWrite  == pos1 # old /\ pos1 # CURRENT_SEQUENCE_STOP
  IN  [servos   |-> IF doWrite
                    THEN writeSpeed(sv, this, points[pos1 + 1].position,
                                    points[pos1 + 1].speed)
                    ELSE sv,
       position |-> pos1,
       new      |-> new,
       advanced |-> there,
       indexed  |-> {pos0} \cup (IF doWrite THEN {pos1} ELSE {}),
       wrote    |-> IF doWrite THEN pos1 ELSE -1,
       issued   |-> IF doWrite THEN points[pos1 + 1].position ELSE -1]

SeqUnchanged == UNCHANGED <<ServoCount, currentServoIndex, CCMP, INTCTRL, pinHigh, oob,
                            cycleStarted, cycleClean, pulse, armed, cycleChan, cycleTicks,
                            lastOp, calls, main>>

\* a call of sequencePlay on the servo, with what it did kept in seqLog
playCall(c) ==
  LET r == sequencePlay(servos, inst[1], c.seq, c.count, c.loop, c.start)
      n == IF r.new THEN 0 ELSE seqLog.advances
  IN  /\ servos' = r.servos
      /\ inst' = [inst EXCEPT ![1].curSequence = c.seq, ![1].curSeqPosition = r.position]
      /\ seqLog' = [call |-> "play", seq |-> c.seq, count |-> c.count, loop |-> c.loop,
                    start |-> c.start, fresh |-> r.new,
                    prev |-> inst[1].curSeqPosition, ret |-> r.position,
                    wrote |-> r.wrote, indexed |-> r.indexed,
                    advances |-> IF r.advanced /\ n <= Len(Sequences[c.seq]) THEN n + 1 ELSE n,
                    preRead |-> read(servos, inst[1]),
                    issued |-> IF r.issued >= 0 THEN r.issued ELSE seqLog.issued]
      /\ SeqUnchanged

\* the ticks the servo may arrive at: all that the bounds in use can store
ArriveTicks == 100..650

\* read() reports the position when the channel's ticks is t
reports(sv, this, t, position) ==
  read([sv EXCEPT ![channelOf(this)].ticks = t], this) = position

\* the servo reaches a position that read() reports as the waypoint issued last
Arrive ==
  /\ Ready /\ seqLog.issued >= 0
  /\ read(servos, inst[1]) # seqLog.issued
  /\ \E t \in ArriveTicks : reports(servos, inst[1], t, seqLog.issued)
  /\ servos' = [servos EXCEPT ![0].ticks =
                  CHOOSE t \in ArriveTicks :
                    /\ reports(servos, inst[1], t, seqLog.issued)
                    /\ t > 0 => ~reports(servos, inst[1], t - 1, seqLog.issued)]
  /\ UNCHANGED <<inst, seqLog>>
  /\ SeqUnchanged

(***************************************************************************)
(* Specification of a playback: the sketch calls sequencePlay again and    *)
(* again with the arguments of its first call, and the servo arrives       *)
(***************************************************************************)
Play ==
  /\ Ready
  /\ \E c \in PlayCalls :
       /\ seqLog.call = "none" \/ c = [seq |-> seqLog.seq, count |-> seqLog.count,
                                       loop |-> seqLog.loop, start |-> seqLog.start]
       /\ playCall(c)

NextPlay == ApiConstruct \/ ApiAttach \/ Play \/ Arrive

SpecPlay ==
  /\ Init /\ [][NextPlay]_vars
  /\ WF_vars(ApiConstruct) /\ WF_vars(ApiAttach) /\ WF_vars(Play) /\ WF_vars(Arrive)

\* the index that follows position in a list of count waypoints played once
NextOnce(position, count) ==
  IF position + 1 >= count THEN CURRENT_SEQUENCE_STOP ELSE position + 1

\* what every call of a play-once run does
PlayOnceStep ==
  (seqLog.call = "play" /\ ~seqLog.loop) =>
    /\ seqLog.fresh => seqLog.ret \in {seqLog.start, NextOnce(seqLog.start, seqLog.count)}
    /\ (~seqLog.fresh /\ seqLog.prev # CURRENT_SEQUENCE_STOP) =>
         seqLog.ret \in {seqLog.prev, NextOnce(seqLog.prev, seqLog.count)}
    /\ (~seqLog.fresh /\ seqLog.prev = CURRENT_SEQUENCE_STOP) =>
         (seqLog.ret = CURRENT_SEQUENCE_STOP /\ seqLog.wrote = -1)
    /\ seqLog.ret = CURRENT_SEQUENCE_STOP => seqLog.advances = seqLog.count - seqLog.start
    /\ seqLog.ret # CURRENT_SEQUENCE_STOP => seqLog.advances = seqLog.ret - seqLog.start

\* C12: played once, with the same arguments in every call and a servo that
\* arrives at each waypoint issued, the index moves from start one step a
\* call, CURRENT_SEQUENCE_STOP is reached after count - start advances, and
\* every later call returns CURRENT_SEQUENCE_STOP and writes nothing.
C12_PlayOnceStops ==
  /\ []PlayOnceStep
  /\ (seqLog.call = "play" /\ ~seqLog.loop) ~> (seqLog.ret = CURRENT_SEQUENCE_STOP)

C12_Witness ==
  /\ seqLog.call = "play" /\ ~seqLog.loop /\ seqLog.start = 0 /\ seqLog.count = 3
  /\ seqLog.prev = CURRENT_SEQUENCE_STOP /\ seqLog.ret = CURRENT_SEQUENCE_STOP
  /\ seqLog.advances = 3 /\ ~seqLog.fresh

\* what every call of a looping run does
PlayLoopStep ==
  (seqLog.call = "play" /\ seqLog.loop) =>
    /\ seqLog.ret # CURRENT_SEQUENCE_STOP
    /\ seqLog.fresh =>
         /\ seqLog.ret \in {seqLog.start, (seqLog.start + 1) % seqLog.count}
         /\ seqLog.wrote = seqLog.ret
    /\ ~seqLog.fresh =>
         /\ seqLog.ret \in {seqLog.prev, (seqLog.prev + 1) % seqLog.count}
         /\ seqLog.wrote = (IF seqLog.ret # seqLog.prev THEN seqLog.ret ELSE -1)

\* C13: looping, with the same arguments in every call and a servo that
\* arrives at each waypoint issued, no call returns CURRENT_SEQUENCE_STOP, the
\* index moves to its successor (count - 1 to 0) or stays, a call writes the
\* waypoint exactly when the index changed, and every index comes up again
\* and again.
C13_PlayLoopCycles ==
  /\ []PlayLoopStep
  /\ \A k \in 0..2 :
       []<>((seqLog.call = "play" /\ seqLog.loop /\ k < seqLog.count) => seqLog.ret = k)

C13_Witness ==
  /\ seqLog.call = "play" /\ seqLog.loop /\ seqLog.count = 3 /\ seqLog.start = 1
  /\ seqLog.prev = 2 /\ seqLog.ret = 0 /\ seqLog.wrote = 0 /\ seqLog.advances >= 2

(***************************************************************************)
(* Specification of the sequence player under any calls: sequencePlay with *)
(* any arguments, sequenceStop, and the servo arriving                     *)
(***************************************************************************)
SeqPlay ==
  /\ Ready
  /\ \E c \in PlayCalls : playCall(c)

\* sequenceStop(): write(read()), then the index is set to CURRENT_SEQUENCE_STOP
SeqStop ==
  /\ Ready
  /\ servos' = stop(servos, inst[1])
  /\ inst' = [inst EXCEPT ![1].curSeqPosition = CURRENT_SEQUENCE_STOP]
  /\ seqLog' = [NoSeq EXCEPT !.call = "stop", !.preRead = read(servos, inst[1])]
  /\ SeqUnchanged

NextSeq == ApiConstruct \/ ApiAttach \/ SeqPlay \/ SeqStop \/ Arrive

SpecSeq == Init /\ [][NextSeq]_vars

\* C14: sequenceStop() leaves the index at CURRENT_SEQUENCE_STOP and read()
\* as it was; a later sequencePlay with the sequence reference in progress
\* returns CURRENT_SEQUENCE_STOP and writes nothing.
C14_StopFreezes ==
  /\ seqLog.call = "stop" =>
       /\ inst[1].curSeqPosition = CURRENT_SEQUENCE_STOP
       /\ read(servos, inst[1]) = seqLog.preRead
  /\ (seqLog.call = "play" /\ ~seqLog.fresh /\ seqLog.prev = CURRENT_SEQUENCE_STOP) =>
       (seqLog.ret = CURRENT_SEQUENCE_STOP /\ seqLog.wrote = -1)

\* C20: a call sequencePlay(seq, count, loop, start) indexes the waypoint list
\* at 0..count-1 only, returns an index in 0..count-1 or
\* CURRENT_SEQUENCE_STOP, and with a sequence reference other than the one in
\* progress starts over at start.
C20_IndexInRange ==
  seqLog.call = "play" =>
    /\ seqLog.indexed \subseteq 0..(seqLog.count - 1)
    /\ seqLog.ret \in (0..(seqLog.count - 1)) \cup {CURRENT_SEQUENCE_STOP}
    /\ seqLog.fresh =>
         seqLog.ret \in {seqLog.start,
                         IF seqLog.start + 1 < seqLog.count THEN seqLog.start + 1
                         ELSE IF seqLog.loop THEN 0 ELSE CURRENT_SEQUENCE_STOP}
====
